---------------------------- MODULE Spec2Model ----------------------------
(***************************************************************************)
(* Model of src/snowfall.py: the snowfall application of Picoware.         *)
(*                                                                         *)
(* The program is one module with three lifecycle handlers, start, run and *)
(* stop.  Its state is the `state` dictionary, the parallel arrays of the  *)
(* two particle pools and the screen geometry.  One step of the model is   *)
(* one call of run (one frame).                                            *)
(*                                                                         *)
(* Numbers.  Python floats are modelled in fixed point: every position and *)
(* velocity is an integer number of thousandths of a pixel, and the sine   *)
(* and cosine tables hold thousandths.  A product of two such numbers is   *)
(* rounded to the nearest thousandth (RoundDiv), where the float keeps     *)
(* more digits.  Ground heights, fields of `state`, indices and counters   *)
(* are Python ints and are modelled as integers.                           *)
(***************************************************************************)
EXTENDS Integers, Sequences, FiniteSets

----------------------------------------------------------------------------
(* Bounds of the model *)

\* view_manager.draw.size of the modelled display, in pixels
DrawSizeX == 100
DrawSizeY == 5
\* frames (calls of run) explored after start
MaxFrames == 6
\* frames among them in which a key is down or random.random() < 0.4 holds
MaxEvents == 2
\* ticks between the initial state of SpecMelt and the first melt
MeltLead == 5
\* free pile slots in the initial state of SpecPileFull
PileLead == 1
\* free snowflake slots in the initial state of SpecSnowFull
SnowLead == 1
\* rotation steps between the initial state of SpecTurn and the wrap of a_idx
TurnLead == 2
\* frames without key and spawn that SpecFall runs after the budget, while a
\* flake is falling
MaxDrain == 12

----------------------------------------------------------------------------
(* Program constants *)

BUTTON_NONE == -1
BUTTON_BACK == 0
BUTTON_ESCAPE == 1
BUTTON_G == 13
BUTTON_R == 24

L_LEFT == -45
L_RIGHT == 45
L_TOP == -12
L_BOT == 12

GRAVITY == 80
FRICTION == 950
MAX_SNOW == 10
MAX_PILE == 200
ROT_STEPS == 126
MELT_RATE == 60

\* state["stage"] == 0 lasts until more than this many ms have passed
WAIT_MS == 5000
\* side of a flake and width of a ground chunk, in pixels (x >> 2, i << 2)
FLAKE == 4

\* n pixels, in thousandths
Px(n) == n * 1000

\* n / d rounded to the nearest integer (d > 0)
RoundDiv(n, d) == (2 * n + d) \div (2 * d)

\* abs()
Abs(n) == IF n < 0 THEN -n ELSE n

\* min() of four numbers
Min4(a, b, c, d) ==
    LET m1 == IF a <= b THEN a ELSE b
        m2 == IF c <= d THEN c ELSE d
    IN IF m1 <= m2 THEN m1 ELSE m2

\* int() of a float: truncation toward zero
IntTrunc(x) == IF x >= 0 THEN x \div 1000 ELSE -((-x) \div 1000)

\* SIN_LUT[i] = math.sin(i * 0.05), COS_LUT[i] = math.cos(i * 0.05), in thousandths
SIN_LUT ==
  << 0, 50, 100, 149, 199, 247, 296, 343, 389, 435, 479, 523, 565, 605,
     644, 682, 717, 751, 783, 813, 841, 867, 891, 913, 932, 949, 964, 976,
     985, 993, 997, 1000, 1000, 997, 992, 984, 974, 961, 946, 929, 909, 887,
     863, 837, 808, 778, 746, 711, 675, 638, 598, 558, 516, 472, 427, 382,
     335, 287, 239, 190, 141, 91, 42, -8, -58, -108, -158, -207, -256, -304,
     -351, -397, -443, -487, -530, -572, -612, -651, -688, -723, -757, -789, -818, -846,
     -872, -895, -916, -935, -952, -966, -978, -987, -994, -998, -1000, -999, -996, -991,
     -982, -972, -959, -944, -926, -906, -883, -859, -832, -804, -773, -740, -706, -669,
     -631, -592, -551, -508, -465, -420, -374, -327, -279, -231, -182, -133, -83, -33 >>

COS_LUT ==
  << 1000, 999, 995, 989, 980, 969, 955, 939, 921, 900, 878, 853, 825, 796,
     765, 732, 697, 660, 622, 582, 540, 498, 454, 408, 362, 315, 267, 219,
     170, 121, 71, 21, -29, -79, -129, -178, -227, -276, -323, -370, -416, -461,
     -505, -547, -589, -628, -666, -703, -737, -770, -801, -830, -857, -882, -904, -924,
     -942, -958, -971, -982, -990, -996, -999, -1000, -998, -994, -987, -978, -967, -953,
     -936, -918, -897, -874, -848, -821, -791, -759, -726, -691, -654, -615, -575, -533,
     -490, -446, -401, -355, -307, -259, -211, -162, -112, -62, -12, 38, 87, 137,
     187, 235, 284, 331, 378, 424, 469, 512, 554, 595, 635, 673, 709, 743,
     776, 806, 835, 861, 886, 908, 927, 945, 960, 973, 983, 991, 997, 999 >>

\* the screen geometry start() derives from the display
SCREEN_W == DrawSizeX
SCREEN_H == DrawSizeY
CX == SCREEN_W \div 2
CY == SCREEN_H \div 2
GROUND_CHUNKS == (SCREEN_W \div 4) + 1

SnowIdx == 0 .. (MAX_SNOW - 1)
PileIdx == 0 .. (MAX_PILE - 1)
ChunkIdx == 0 .. (GROUND_CHUNKS - 1)


----------------------------------------------------------------------------
(* State *)

VARIABLES
    stage,        \* state["stage"]: 0 waiting, 1 snowing
    start_time,   \* state["start_time"]
    a_idx,        \* state["a_idx"]
    rot,          \* state["rot"]
    ground,       \* state["ground"]: top Y of the snow of each chunk, in pixels
    tick,         \* state["tick"]
    sn_act, sn_x, sn_y, sn_vx, sn_vy, sn_px, sn_py,    \* the snowflake pool
    pl_act, pl_rx, pl_ry, pl_sv, pl_edge,              \* the pile pool
    running,      \* FALSE once run has called view_manager.back()
    now,          \* time.ticks_ms() as read by the last frame
    button,       \* input_mgr.button as read by the last frame
    born,         \* the slot the last frame's spawn woke up, or -1
    hit,          \* what the last frame's collision pass did with each flake
    old,          \* the last frame's button and what it started from
    frames,       \* calls of run so far
    events        \* frames so far with a key down or random.random() < 0.4

prog == << stage, start_time, a_idx, rot, ground, tick,
           sn_act, sn_x, sn_y, sn_vx, sn_vy, sn_px, sn_py,
           pl_act, pl_rx, pl_ry, pl_sv, pl_edge, running >>

vars == << stage, start_time, a_idx, rot, ground, tick,
           sn_act, sn_x, sn_y, sn_vx, sn_vy, sn_px, sn_py,
           pl_act, pl_rx, pl_ry, pl_sv, pl_edge, running,
           now, button, born, hit, old, frames, events >>

\* the entry of hit for a slot the collision pass skipped
NoHit == [seen |-> FALSE, x |-> 0, y |-> 0, vy |-> 0, chunk |-> 0, inr |-> FALSE,
          h |-> 0, lx |-> 0, ly |-> 0,
          gnd |-> FALSE, body |-> FALSE, pile |-> -1,
          rx |-> 0, ry |-> 0, edge |-> 0, sv |-> 0, off |-> FALSE]

\* the program's state as one record, as the operators below pass it on
Cur ==
    [stage |-> stage, start_time |-> start_time, a_idx |-> a_idx, rot |-> rot,
     ground |-> ground, tick |-> tick,
     sn_act |-> sn_act, sn_x |-> sn_x, sn_y |-> sn_y, sn_vx |-> sn_vx,
     sn_vy |-> sn_vy, sn_px |-> sn_px, sn_py |-> sn_py,
     pl_act |-> pl_act, pl_rx |-> pl_rx, pl_ry |-> pl_ry, pl_sv |-> pl_sv,
     pl_edge |-> pl_edge, running |-> running,
     born |-> -1, hit |-> [i \in SnowIdx |-> NoHit]]

\* the module as loaded, before start: lines 55-77 (state = {} has no key yet)
Loaded ==
    [stage |-> 0, start_time |-> 0, a_idx |-> 0, rot |-> FALSE,
     ground |-> [c \in ChunkIdx |-> 0], tick |-> 0,
     sn_act |-> [i \in SnowIdx |-> FALSE], sn_x |-> [i \in SnowIdx |-> 0],
     sn_y |-> [i \in SnowIdx |-> 0], sn_vx |-> [i \in SnowIdx |-> 0],
     sn_vy |-> [i \in SnowIdx |-> 0], sn_px |-> [i \in SnowIdx |-> 0],
     sn_py |-> [i \in SnowIdx |-> 0],
     pl_act |-> [p \in PileIdx |-> FALSE], pl_rx |-> [p \in PileIdx |-> 0],
     pl_ry |-> [p \in PileIdx |-> 0], pl_sv |-> [p \in PileIdx |-> 0],
     pl_edge |-> [p \in PileIdx |-> 0], running |-> TRUE,
     born |-> -1, hit |-> [i \in SnowIdx |-> NoHit]]

\* the number of active slots of a pool
Active(act) == Cardinality({i \in DOMAIN act : act[i]})

\* the first dormant slot of a pool of n slots, n when there is none
FirstFree(act, n) ==
    IF \E i \in 0 .. (n - 1) : ~act[i]
    THEN CHOOSE i \in 0 .. (n - 1) : ~act[i] /\ \A j \in 0 .. (i - 1) : act[j]
    ELSE n

----------------------------------------------------------------------------
(* start *)

\* a start that leaves the pile pool as it is
startKeepsPile(S, t) ==
    [S EXCEPT !.stage = 0,
              !.start_time = t,
              !.a_idx = 0,
              !.rot = FALSE,
              !.ground = [c \in ChunkIdx |-> SCREEN_H],
              !.tick = 0,
              !.sn_act = [i \in SnowIdx |-> FALSE]]

\* a start that flips the rotation flag instead of clearing it
startFlipsRot(S, t) ==
    [S EXCEPT !.stage = 0,
              !.start_time = t,
              !.a_idx = 0,
              !.rot = ~S.rot,
              !.ground = [c \in ChunkIdx |-> SCREEN_H],
              !.tick = 0,
              !.sn_act = [i \in SnowIdx |-> FALSE],
              !.pl_act = [p \in PileIdx |-> FALSE]]

\* start(view_manager), called at time t
start(S, t) ==
    [S EXCEPT !.stage = 0,
              !.start_time = t,
              !.a_idx = 0,
              !.rot = FALSE,
              !.ground = [c \in ChunkIdx |-> SCREEN_H],
              !.tick = 0,
              !.sn_act = [i \in SnowIdx |-> FALSE],
              !.pl_act = [p \in PileIdx |-> FALSE]]

----------------------------------------------------------------------------
(* run: the simulation of one tick, lines 170-306 *)

\* a melt without the clamp at the floor
MeltNoClamp(g, tk) ==
    IF tk % MELT_RATE = 0 THEN [c \in ChunkIdx |-> g[c] + 1] ELSE g

\* the melt of tick tk, lines 174-177
Melt(g, tk) ==
    IF tk % MELT_RATE = 0
    THEN [c \in ChunkIdx |-> IF g[c] < SCREEN_H THEN g[c] + 1 ELSE g[c]]
    ELSE g

\* a spawn that adds a slot to the pool when none is free
SpawnGrows(S, r) ==
    LET i == FirstFree(S.sn_act, MAX_SNOW)
        more(a, v) == [q \in 0 .. i |-> IF q = i THEN v ELSE a[q]]
    IN IF r.roll /\ i < MAX_SNOW
       THEN [S EXCEPT !.sn_act[i] = TRUE,
                      !.sn_x[i] = Px(r.x),
                      !.sn_y[i] = -5000,
                      !.sn_vx[i] = r.vx,
                      !.sn_vy[i] = r.vy,
                      !.sn_px[i] = Px(r.x),
                      !.sn_py[i] = -5000,
                      !.born = i]
       ELSE IF r.roll
       THEN [S EXCEPT !.sn_act = more(S.sn_act, TRUE),
                      !.sn_x = more(S.sn_x, Px(r.x)),
                      !.sn_y = more(S.sn_y, -5000),
                      !.sn_vx = more(S.sn_vx, r.vx),
                      !.sn_vy = more(S.sn_vy, r.vy),
                      !.sn_px = more(S.sn_px, Px(r.x)),
                      !.sn_py = more(S.sn_py, -5000)]
       ELSE S

\* a spawn that takes the slot after the last active one
SpawnAfterLast(S, r) ==
    LET used == {q \in SnowIdx : S.sn_act[q]}
        i == IF used = {} THEN 0
             ELSE 1 + (CHOOSE q \in used : \A u \in used : u <= q)
    IN IF r.roll /\ i < MAX_SNOW
       THEN [S EXCEPT !.sn_act[i] = TRUE,
                      !.sn_x[i] = Px(r.x),
                      !.sn_y[i] = -5000,
                      !.sn_vx[i] = r.vx,
                      !.sn_vy[i] = r.vy,
                      !.sn_px[i] = Px(r.x),
                      !.sn_py[i] = -5000,
                      !.born = i]
       ELSE S

\* the spawn, lines 179-189.  r.roll is random.random() < 0.4, r.x is
\* random.randrange(0, SCREEN_W) in pixels, r.vx and r.vy are the two
\* random.uniform results
Spawn(S, r) ==
    LET i == FirstFree(S.sn_act, MAX_SNOW)
    IN IF r.roll /\ i < MAX_SNOW
       THEN [S EXCEPT !.sn_act[i] = TRUE,
                      !.sn_x[i] = Px(r.x),
                      !.sn_y[i] = -5000,
                      !.sn_vx[i] = r.vx,
                      !.sn_vy[i] = r.vy,
                      !.sn_px[i] = Px(r.x),
                      !.sn_py[i] = -5000,
                      !.born = i]
       ELSE S

\* a rotation step that does not wrap
AdvanceNoWrap(S, a) ==
    IF S.rot THEN [S EXCEPT !.a_idx = a + 1] ELSE S

\* the rotation step, lines 191-192; a is the index read at line 166
Advance(S, a) ==
    IF S.rot THEN [S EXCEPT !.a_idx = (a + 1) % ROT_STEPS] ELSE S

\* the ground chunk of a flake at x, line 210: int(x) >> 2
Chunk(x) == IntTrunc(x) \div 4

\* a choice of the edge that looks at the left and right edges first
NearestEdgeSidesFirst(lx, ly) ==
    LET dt == Abs(ly - Px(L_TOP))
        db == Abs(ly - Px(L_BOT))
        dl == Abs(lx - Px(L_LEFT))
        dr == Abs(lx - Px(L_RIGHT))
        m == Min4(dt, db, dl, dr)
    IN IF m = dl THEN 2 ELSE IF m = dr THEN 3 ELSE IF m = dt THEN 0 ELSE 1

\* the edge a flake at local (lx, ly) snaps to, lines 224-241:
\* 0 top, 1 bottom, 2 left, 3 right
NearestEdge(lx, ly) ==
    LET dt == Abs(ly - Px(L_TOP))
        db == Abs(ly - Px(L_BOT))
        dl == Abs(lx - Px(L_LEFT))
        dr == Abs(lx - Px(L_RIGHT))
        m == Min4(dt, db, dl, dr)
    IN IF m = dt THEN 0 ELSE IF m = db THEN 1 ELSE IF m = dl THEN 2 ELSE 3

\* whether local (lx, ly) is in the bounding box of the logo, line 223
InBox(lx, ly) ==
    /\ Px(L_LEFT) <= lx /\ lx <= Px(L_RIGHT)
    /\ Px(L_TOP) <= ly /\ ly <= Px(L_BOT)

\* a pile allocation that takes the last slot when none is free
PileOverwrites(S, lx, ly) ==
    LET f == FirstFree(S.pl_act, MAX_PILE)
        p == IF f < MAX_PILE THEN f ELSE MAX_PILE - 1
        e == NearestEdge(lx, ly)
    IN [S EXCEPT !.pl_act[p] = TRUE,
                 !.pl_sv[p] = 0,
                 !.pl_rx[p] = CASE e = 0 -> lx [] e = 1 -> lx
                                [] e = 2 -> Px(L_LEFT) [] OTHER -> Px(L_RIGHT),
                 !.pl_ry[p] = CASE e = 0 -> Px(L_TOP) [] e = 1 -> Px(L_BOT)
                                [] OTHER -> ly,
                 !.pl_edge[p] = e]

\* a pile allocation that adds a slot to the pool when none is free
PileGrows(S, lx, ly) ==
    LET p == FirstFree(S.pl_act, MAX_PILE)
        e == NearestEdge(lx, ly)
        more(a, v) == [q \in 0 .. p |-> IF q = p THEN v ELSE a[q]]
    IN IF p < MAX_PILE
       THEN [S EXCEPT !.pl_act[p] = TRUE,
                      !.pl_sv[p] = 0,
                      !.pl_rx[p] = CASE e = 0 -> lx [] e = 1 -> lx
                                     [] e = 2 -> Px(L_LEFT) [] OTHER -> Px(L_RIGHT),
                      !.pl_ry[p] = CASE e = 0 -> Px(L_TOP) [] e = 1 -> Px(L_BOT)
                                     [] OTHER -> ly,
                      !.pl_edge[p] = e]
       ELSE [S EXCEPT !.pl_act = more(S.pl_act, TRUE),
                      !.pl_sv = more(S.pl_sv, 0),
                      !.pl_rx = more(S.pl_rx, lx),
                      !.pl_ry = more(S.pl_ry, ly),
                      !.pl_edge = more(S.pl_edge, e)]

\* the pile pixel a flake at local (lx, ly) becomes, lines 230-242
Pile(S, lx, ly) ==
    LET p == FirstFree(S.pl_act, MAX_PILE)
        e == NearestEdge(lx, ly)
    IN IF p < MAX_PILE
       THEN [S EXCEPT !.pl_act[p] = TRUE,
                      !.pl_sv[p] = 0,
                      !.pl_rx[p] = CASE e = 0 -> lx [] e = 1 -> lx
                                     [] e = 2 -> Px(L_LEFT) [] OTHER -> Px(L_RIGHT),
                      !.pl_ry[p] = CASE e = 0 -> Px(L_TOP) [] e = 1 -> Px(L_BOT)
                                     [] OTHER -> ly,
                      !.pl_edge[p] = e]
       ELSE S

\* a ground test that waits for the flake's top to reach the ground
OnGroundLate(g, x, y) ==
    /\ 0 <= Chunk(x) /\ Chunk(x) < GROUND_CHUNKS
    /\ y >= Px(g[Chunk(x)])

\* a landing that raises the ground by one pixel only
LandByOne(g, c) == [g EXCEPT ![c] = @ - 1]

\* a bottom test that takes the flake's size into account
GoneEarly(landed, y) == landed \/ y + Px(FLAKE) >= Px(SCREEN_H)

\* the ground test of lines 212-213 for a flake at (x, y) over the ground g
OnGround(g, x, y) ==
    /\ 0 <= Chunk(x) /\ Chunk(x) < GROUND_CHUNKS
    /\ y + Px(FLAKE) >= Px(g[Chunk(x)])

\* the ground after a flake has landed on chunk c, line 214
Land(g, c) == [g EXCEPT ![c] = @ - FLAKE]

\* a bottom test that is never met
GoneIfLanded(landed, y) == landed

\* whether a flake at height y goes back to sleep, line 245
Gone(landed, y) == landed \/ y >= Px(SCREEN_H)

\* one round of the loop of lines 194-246, for flake i; (s_ang, c_ang) are the
\* table entries read at lines 167-168
Collide(S, i, s_ang, c_ang) ==
    IF ~S.sn_act[i] THEN S
    ELSE
    LET vy == S.sn_vy[i] + GRAVITY
        x == S.sn_x[i] + S.sn_vx[i]
        y == S.sn_y[i] + vy
        chunk == Chunk(x)
        inr == 0 <= chunk /\ chunk < GROUND_CHUNKS
        gnd == OnGround(S.ground, x, y)
        dx == x - Px(CX)
        dy == y - Px(CY)
        lx == RoundDiv(dx * c_ang + dy * s_ang, 1000)
        ly == RoundDiv(dy * c_ang - dx * s_ang, 1000)
        body == ~gnd /\ InBox(lx, ly)
        S1 == [S EXCEPT !.sn_px[i] = S.sn_x[i],
                        !.sn_py[i] = S.sn_y[i],
                        !.sn_vy[i] = vy,
                        !.sn_x[i] = x,
                        !.sn_y[i] = y]
        S2 == IF gnd THEN [S1 EXCEPT !.ground = Land(S1.ground, chunk)] ELSE S1
        S3 == IF body THEN Pile(S2, lx, ly) ELSE S2
        S4 == IF Gone(gnd \/ body, y) THEN [S3 EXCEPT !.sn_act[i] = FALSE] ELSE S3
        made == S3.pl_act # S2.pl_act
        p == FirstFree(S2.pl_act, MAX_PILE)
    IN [S4 EXCEPT !.hit[i] =
           [seen |-> TRUE, x |-> x, y |-> y, vy |-> vy, chunk |-> chunk, inr |-> inr,
            h |-> IF inr THEN S.ground[chunk] ELSE 0,
            lx |-> lx, ly |-> ly,
            gnd |-> S2.ground # S1.ground,
            body |-> body,
            pile |-> IF made THEN p ELSE -1,
            rx |-> IF made THEN S3.pl_rx[p] ELSE 0,
            ry |-> IF made THEN S3.pl_ry[p] ELSE 0,
            edge |-> IF made THEN S3.pl_edge[p] ELSE 0,
            sv |-> IF made THEN S3.pl_sv[p] ELSE 0,
            off |-> ~S4.sn_act[i]]]

\* the loop of lines 194-246 over the flakes lo .. hi - 1, in the order of their
\* indices.  A range without an active flake is left as line 195 leaves each
\* of its flakes; a longer range is done as its two halves, one after the other
RECURSIVE CollisionPass(_, _, _, _, _)
CollisionPass(S, lo, hi, s_ang, c_ang) ==
    IF \A i \in lo .. (hi - 1) : ~S.sn_act[i] THEN S
    ELSE IF hi = lo + 1 THEN Collide(S, lo, s_ang, c_ang)
    ELSE LET mid == (lo + hi) \div 2
         IN CollisionPass(CollisionPass(S, lo, mid, s_ang, c_ang), mid, hi, s_ang, c_ang)

\* a release that takes the first slot when none is free
ReleaseOverwrites(S, p, sv, s_ang, c_ang) ==
    LET rx == S.pl_rx[p]
        ry == S.pl_ry[p]
        ax == RoundDiv(rx * c_ang - ry * s_ang, 1000) + Px(CX)
        ay == RoundDiv(rx * s_ang + ry * c_ang, 1000) + Px(CY)
        vx == IF S.pl_edge[p] < 2 THEN RoundDiv(sv * c_ang, 1000)
                                  ELSE RoundDiv((-sv) * s_ang, 1000)
        vy == IF S.pl_edge[p] < 2 THEN RoundDiv(sv * s_ang, 1000) + 1000
                                  ELSE RoundDiv(sv * c_ang, 1000) + 1000
        f == FirstFree(S.sn_act, MAX_SNOW)
        i == IF f < MAX_SNOW THEN f ELSE 0
    IN [S EXCEPT !.sn_act[i] = TRUE,
                 !.sn_x[i] = ax, !.sn_y[i] = ay,
                 !.sn_px[i] = ax, !.sn_py[i] = ay,
                 !.sn_vx[i] = vx, !.sn_vy[i] = vy]

\* the flake a pile pixel becomes when it leaves its edge, lines 291-306
Release(S, p, sv, s_ang, c_ang) ==
    LET rx == S.pl_rx[p]
        ry == S.pl_ry[p]
        ax == RoundDiv(rx * c_ang - ry * s_ang, 1000) + Px(CX)
        ay == RoundDiv(rx * s_ang + ry * c_ang, 1000) + Px(CY)
        vx == IF S.pl_edge[p] < 2 THEN RoundDiv(sv * c_ang, 1000)
                                  ELSE RoundDiv((-sv) * s_ang, 1000)
        vy == IF S.pl_edge[p] < 2 THEN RoundDiv(sv * s_ang, 1000) + 1000
                                  ELSE RoundDiv(sv * c_ang, 1000) + 1000
        i == FirstFree(S.sn_act, MAX_SNOW)
    IN IF i < MAX_SNOW
       THEN [S EXCEPT !.sn_act[i] = TRUE,
                      !.sn_x[i] = ax, !.sn_y[i] = ay,
                      !.sn_px[i] = ax, !.sn_py[i] = ay,
                      !.sn_vx[i] = vx, !.sn_vy[i] = vy]
       ELSE S

\* a slide in which the horizontal edges feel the pull of the vertical ones
\* and the vertical edges that of the horizontal ones
SlideCrossPull(S, p, s_ang, c_ang) ==
    IF ~S.pl_act[p] THEN S
    ELSE
    LET gx == RoundDiv(s_ang * GRAVITY * 2, 1000)
        gy == RoundDiv(c_ang * GRAVITY * 2, 1000)
        e == S.pl_edge[p]
        away == CASE e = 0 -> gy < 0
                  [] e = 1 -> gy > 0
                  [] e = 2 -> gx > 0
                  [] OTHER -> gx < 0
        g == IF e < 2 THEN gy ELSE gx
        sv == IF away THEN S.pl_sv[p] ELSE RoundDiv((S.pl_sv[p] + g) * FRICTION, 1000)
        rx == IF ~away /\ e < 2 THEN S.pl_rx[p] + sv ELSE S.pl_rx[p]
        ry == IF ~away /\ e >= 2 THEN S.pl_ry[p] + sv ELSE S.pl_ry[p]
        fall == \/ away
                \/ e < 2 /\ (rx < Px(L_LEFT) \/ rx > Px(L_RIGHT))
                \/ e >= 2 /\ (ry < Px(L_TOP) \/ ry > Px(L_BOT))
        S1 == [S EXCEPT !.pl_rx[p] = rx, !.pl_ry[p] = ry, !.pl_sv[p] = sv]
    IN IF fall
       THEN Release([S1 EXCEPT !.pl_act[p] = FALSE], p, sv, s_ang, c_ang)
       ELSE S1

\* a slide that never looks at the ends of the edge
SlideNoEnds(S, p, s_ang, c_ang) ==
    IF ~S.pl_act[p] THEN S
    ELSE
    LET gx == RoundDiv(s_ang * GRAVITY * 2, 1000)
        gy == RoundDiv(c_ang * GRAVITY * 2, 1000)
        e == S.pl_edge[p]
        away == CASE e = 0 -> gy < 0
                  [] e = 1 -> gy > 0
                  [] e = 2 -> gx > 0
                  [] OTHER -> gx < 0
        g == IF e < 2 THEN gx ELSE gy
        sv == IF away THEN S.pl_sv[p] ELSE RoundDiv((S.pl_sv[p] + g) * FRICTION, 1000)
        rx == IF ~away /\ e < 2 THEN S.pl_rx[p] + sv ELSE S.pl_rx[p]
        ry == IF ~away /\ e >= 2 THEN S.pl_ry[p] + sv ELSE S.pl_ry[p]
        fall == away
        S1 == [S EXCEPT !.pl_rx[p] = rx, !.pl_ry[p] = ry, !.pl_sv[p] = sv]
    IN IF fall
       THEN Release([S1 EXCEPT !.pl_act[p] = FALSE], p, sv, s_ang, c_ang)
       ELSE S1

\* a slide whose pixel stays on the edge when it lets a flake go
SlideKeepsPixel(S, p, s_ang, c_ang) ==
    IF ~S.pl_act[p] THEN S
    ELSE
    LET gx == RoundDiv(s_ang * GRAVITY * 2, 1000)
        gy == RoundDiv(c_ang * GRAVITY * 2, 1000)
        e == S.pl_edge[p]
        away == CASE e = 0 -> gy < 0
                  [] e = 1 -> gy > 0
                  [] e = 2 -> gx > 0
                  [] OTHER -> gx < 0
        g == IF e < 2 THEN gx ELSE gy
        sv == IF away THEN S.pl_sv[p] ELSE RoundDiv((S.pl_sv[p] + g) * FRICTION, 1000)
        rx == IF ~away /\ e < 2 THEN S.pl_rx[p] + sv ELSE S.pl_rx[p]
        ry == IF ~away /\ e >= 2 THEN S.pl_ry[p] + sv ELSE S.pl_ry[p]
        fall == \/ away
                \/ e < 2 /\ (rx < Px(L_LEFT) \/ rx > Px(L_RIGHT))
                \/ e >= 2 /\ (ry < Px(L_TOP) \/ ry > Px(L_BOT))
        S1 == [S EXCEPT !.pl_rx[p] = rx, !.pl_ry[p] = ry, !.pl_sv[p] = sv]
    IN IF fall
       THEN Release(S1, p, sv, s_ang, c_ang)
       ELSE S1

\* one round of the loop of lines 251-306, for pile pixel p
Slide(S, p, s_ang, c_ang) ==
    IF ~S.pl_act[p] THEN S
    ELSE
    LET gx == RoundDiv(s_ang * GRAVITY * 2, 1000)
        gy == RoundDiv(c_ang * GRAVITY * 2, 1000)
        e == S.pl_edge[p]
        away == CASE e = 0 -> gy < 0
                  [] e = 1 -> gy > 0
                  [] e = 2 -> gx > 0
                  [] OTHER -> gx < 0
        g == IF e < 2 THEN gx ELSE gy
        sv == IF away THEN S.pl_sv[p] ELSE RoundDiv((S.pl_sv[p] + g) * FRICTION, 1000)
        rx == IF ~away /\ e < 2 THEN S.pl_rx[p] + sv ELSE S.pl_rx[p]
        ry == IF ~away /\ e >= 2 THEN S.pl_ry[p] + sv ELSE S.pl_ry[p]
        fall == \/ away
                \/ e < 2 /\ (rx < Px(L_LEFT) \/ rx > Px(L_RIGHT))
                \/ e >= 2 /\ (ry < Px(L_TOP) \/ ry > Px(L_BOT))
        S1 == [S EXCEPT !.pl_rx[p] = rx, !.pl_ry[p] = ry, !.pl_sv[p] = sv]
    IN IF fall
       THEN Release([S1 EXCEPT !.pl_act[p] = FALSE], p, sv, s_ang, c_ang)
       ELSE S1

\* the loop of lines 251-306 over the pile pixels lo .. hi - 1, in the order of
\* their indices.  A range without an active pixel is left as line 252 leaves
\* each of its pixels; a longer range is done as its two halves, one after the
\* other, which keeps the evaluation shallow
RECURSIVE SlidePass(_, _, _, _, _)
SlidePass(S, lo, hi, s_ang, c_ang) ==
    IF \A p \in lo .. (hi - 1) : ~S.pl_act[p] THEN S
    ELSE IF hi = lo + 1 THEN Slide(S, lo, s_ang, c_ang)
    ELSE LET mid == (lo + hi) \div 2
         IN SlidePass(SlidePass(S, lo, mid, s_ang, c_ang), mid, hi, s_ang, c_ang)

\* a stage gate that opens at the wait itself
GateAtWait(S, t) ==
    IF S.stage = 0 /\ t - S.start_time >= WAIT_MS THEN [S EXCEPT !.stage = 1] ELSE S

\* the stage gate, lines 163-164; t is the frame's time.ticks_ms()
Gate(S, t) ==
    IF S.stage = 0 /\ t - S.start_time > WAIT_MS THEN [S EXCEPT !.stage = 1] ELSE S

\* the tick of an active frame, lines 166-306
Tick(S, r) ==
    LET a == S.a_idx
        s_ang == SIN_LUT[a + 1]
        c_ang == COS_LUT[a + 1]
        S1 == [S EXCEPT !.tick = @ + 1]
        S2 == [S1 EXCEPT !.ground = Melt(S1.ground, S1.tick)]
        S3 == Spawn(S2, r)
        S4 == Advance(S3, a)
        S5 == CollisionPass(S4, 0, MAX_SNOW, s_ang, c_ang)
    IN SlidePass(S5, 0, MAX_PILE, s_ang, c_ang)

\* a rotation key that works in the waiting stage too
ToggleAnyStage(S, btn) ==
    IF btn = BUTTON_G THEN [S EXCEPT !.rot = ~S.rot] ELSE S

\* the rotation key, lines 155-157
Toggle(S, btn) ==
    IF btn = BUTTON_G /\ S.stage = 1 THEN [S EXCEPT !.rot = ~S.rot] ELSE S

\* run(view_manager): one frame.  btn is input_mgr.button, t the frame's
\* time.ticks_ms(), r the frame's random numbers
run(S, btn, t, r) ==
    IF btn = BUTTON_BACK \/ btn = BUTTON_ESCAPE
    THEN [S EXCEPT !.running = FALSE]
    ELSE LET S1 == Toggle(S, btn)
         IN IF btn = BUTTON_R
            THEN start(S1, t)
            ELSE LET S2 == Gate(S1, t)
                 IN IF S2.stage = 1 THEN Tick(S2, r) ELSE S2

----------------------------------------------------------------------------
(* The frames *)

\* the frame's random numbers when random.random() >= 0.4
NoRoll == [roll |-> FALSE, x |-> 0, vx |-> 0, vy |-> 0]

\* the random numbers of a frame that spawns: x of random.randrange(0, SCREEN_W)
\* (the left border, just inside the logo, the centre), vx of
\* random.uniform(-0.3, 0.3) (a drift to the left only from the border), vy of
\* random.uniform(0.5, 1.5); and the flake that is 6 pixels from the left
\* border of the logo, and with vy = 0.92 from its top too, after a tick
Rolls ==
    ( { [roll |-> TRUE, x |-> x, vx |-> vx, vy |-> 1500] :
            x \in {0, CX - 44, CX}, vx \in {-300, 0} }
      \ { [roll |-> TRUE, x |-> x, vx |-> -300, vy |-> 1500] : x \in {CX - 44, CX} } )
    \cup { [roll |-> TRUE, x |-> CX - 39, vx |-> 0, vy |-> 920] }

\* the time between two frames: while waiting, just the wait or one ms more
Steps == IF stage = 0 THEN {WAIT_MS, WAIT_MS + 1} ELSE {WAIT_MS}

\* the number of a pool's active slots and the scalars of S, kept by old with
\* the frame's button and random numbers
Snapshot(S, btn) ==
    [button |-> btn, stage |-> S.stage, tick |-> S.tick, a_idx |-> S.a_idx,
     rot |-> S.rot, snow |-> Active(S.sn_act), pile |-> Active(S.pl_act),
     roll |-> NoRoll]

\* the variables after the frame that leaves the program in S
Set(S) ==
    /\ stage' = S.stage /\ start_time' = S.start_time /\ a_idx' = S.a_idx
    /\ rot' = S.rot /\ ground' = S.ground /\ tick' = S.tick
    /\ sn_act' = S.sn_act /\ sn_x' = S.sn_x /\ sn_y' = S.sn_y
    /\ sn_vx' = S.sn_vx /\ sn_vy' = S.sn_vy /\ sn_px' = S.sn_px /\ sn_py' = S.sn_py
    /\ pl_act' = S.pl_act /\ pl_rx' = S.pl_rx /\ pl_ry' = S.pl_ry
    /\ pl_sv' = S.pl_sv /\ pl_edge' = S.pl_edge /\ running' = S.running
    /\ born' = S.born /\ hit' = S.hit

\* one call of run, with button btn down, t ms after the last one, drawing r
Frame(btn, dt, r) ==
    /\ running
    /\ frames < MaxFrames
    /\ (btn # BUTTON_NONE \/ r.roll) => events < MaxEvents
    /\ Set(run(Cur, btn, now + dt, r))
    /\ now' = now + dt
    /\ button' = btn
    /\ old' = [Snapshot(Cur, btn) EXCEPT !.roll = r]
    /\ frames' = frames + 1
    /\ events' = IF btn # BUTTON_NONE \/ r.roll THEN events + 1 ELSE events

\* whether the frame with button btn at time t runs the simulation (line 170)
Ticks(btn, t) == btn \notin {BUTTON_BACK, BUTTON_ESCAPE, BUTTON_R} /\ Gate(Cur, t).stage = 1

\* a frame with the back or the escape key down
Exit == \E btn \in {BUTTON_BACK, BUTTON_ESCAPE}, dt \in Steps : Frame(btn, dt, NoRoll)

\* a frame with the r key down
Reset == \E dt \in Steps : Frame(BUTTON_R, dt, NoRoll)

\* a frame of the waiting stage that stays in it
Wait ==
    \E btn \in {BUTTON_NONE, BUTTON_G}, dt \in Steps :
        /\ ~Ticks(btn, now + dt)
        /\ Frame(btn, dt, NoRoll)

\* a frame that runs the simulation
Play ==
    \E btn \in {BUTTON_NONE, BUTTON_G}, dt \in Steps, r \in Rolls \cup {NoRoll} :
        /\ Ticks(btn, now + dt)
        /\ Frame(btn, dt, r)

Boot == start(Loaded, 0)

Init ==
    /\ stage = Boot.stage /\ start_time = Boot.start_time /\ a_idx = Boot.a_idx
    /\ rot = Boot.rot /\ ground = Boot.ground /\ tick = Boot.tick
    /\ sn_act = Boot.sn_act /\ sn_x = Boot.sn_x /\ sn_y = Boot.sn_y
    /\ sn_vx = Boot.sn_vx /\ sn_vy = Boot.sn_vy /\ sn_px = Boot.sn_px
    /\ sn_py = Boot.sn_py
    /\ pl_act = Boot.pl_act /\ pl_rx = Boot.pl_rx /\ pl_ry = Boot.pl_ry
    /\ pl_sv = Boot.pl_sv /\ pl_edge = Boot.pl_edge /\ running = Boot.running
    /\ born = -1 /\ hit = [i \in SnowIdx |-> NoHit]
    /\ now = 0
    /\ button = BUTTON_NONE
    /\ old = Snapshot(Loaded, BUTTON_NONE)
    /\ frames = 0 /\ events = 0

\* the program after n frames without a key and without a spawn, the first one
\* at time t and each WAIT_MS after the one before; more than one frame is
\* done as two runs of frames, one after the other
RECURSIVE Idle(_, _, _)
Idle(S, t, n) ==
    IF n = 0 \/ ~S.running THEN S
    ELSE IF n = 1 THEN run(S, BUTTON_NONE, t, NoRoll)
    ELSE LET h == n \div 2
         IN Idle(Idle(S, t, h), t + h * WAIT_MS, n - h)

\* the program after n frames without a key that each draw r, the first one at
\* time t and each WAIT_MS after the one before
RECURSIVE Snowing(_, _, _, _)
Snowing(S, t, n, r) ==
    IF n = 0 \/ ~S.running THEN S
    ELSE IF n = 1 THEN run(S, BUTTON_NONE, t, r)
    ELSE LET h == n \div 2
         IN Snowing(Snowing(S, t, h, r), t + h * WAIT_MS, n - h, r)

\* the variables when the program is in S at time t, P being the program
\* before its last frame, with f frames and e events of the budget spent
Resume(S, t, P, f, e) ==
    /\ stage = S.stage /\ start_time = S.start_time /\ a_idx = S.a_idx
    /\ rot = S.rot /\ ground = S.ground /\ tick = S.tick
    /\ sn_act = S.sn_act /\ sn_x = S.sn_x /\ sn_y = S.sn_y
    /\ sn_vx = S.sn_vx /\ sn_vy = S.sn_vy /\ sn_px = S.sn_px
    /\ sn_py = S.sn_py
    /\ pl_act = S.pl_act /\ pl_rx = S.pl_rx /\ pl_ry = S.pl_ry
    /\ pl_sv = S.pl_sv /\ pl_edge = S.pl_edge /\ running = S.running
    /\ born = S.born /\ hit = S.hit
    /\ now = t
    /\ button = BUTTON_NONE
    /\ old = Snapshot(P, BUTTON_NONE)
    /\ frames = f /\ events = e

\* the program MeltLead ticks before its first melt: started, the stage opened
\* by the first frame, and no flake spawned since
InitMelt ==
    LET n == MELT_RATE - MeltLead
    IN Resume(Idle(Boot, WAIT_MS + 1, n), n * WAIT_MS + 1,
              Idle(Boot, WAIT_MS + 1, n - 1), 0, 0)

\* the program with the logo turning, k >= 1 steps from its start: started, the
\* stage opened by the first frame, the G key down in the second, and no key
\* or spawn in the k - 1 frames since.  The last frame is at (k + 1) * WAIT_MS + 1
Turning(k) ==
    Idle(run(Idle(Boot, WAIT_MS + 1, 1), BUTTON_G, 2 * WAIT_MS + 1, NoRoll),
         3 * WAIT_MS + 1, k - 1)

\* the program TurnLead steps of the logo before a_idx wraps
InitTurn ==
    LET k == ROT_STEPS - TurnLead
    IN Resume(Turning(k), (k + 1) * WAIT_MS + 1, Turning(k - 1), 0, 0)

\* the program with the logo stopped k >= 1 steps from its start: turning, then
\* the G key down again.  The frame of the key is at (k + 2) * WAIT_MS + 1
Stopped(k) ==
    run(Turning(k), BUTTON_G, (k + 2) * WAIT_MS + 1, NoRoll)

\* the program in the active stage with the logo upright and never turned, or
\* stopped upside down (half a turn), one frame after the last key
InitSnap ==
    \/ Resume(Idle(Boot, WAIT_MS + 1, 1), WAIT_MS + 1, Boot, 0, 0)
    \/ LET k == ROT_STEPS \div 2
       IN Resume(Idle(Stopped(k), (k + 3) * WAIT_MS + 1, 1), (k + 3) * WAIT_MS + 1,
                 Stopped(k), 0, 0)

\* a flake that falls on the middle of the logo
OnLogo == [roll |-> TRUE, x |-> CX, vx |-> 0, vy |-> 1500]

\* the program with all pile slots but PileLead in use: started, and a flake
\* fallen on the upright logo in each frame since.  Half of the frames of the
\* budget are left to explore
InitPileFull ==
    LET n == MAX_PILE - PileLead
    IN Resume(Snowing(Boot, WAIT_MS + 1, n, OnLogo), n * WAIT_MS + 1,
              Snowing(Boot, WAIT_MS + 1, n - 1, OnLogo), MaxFrames \div 2, 0)

\* a flake that falls just inside the left edge of the logo
OnLeftEdge == [roll |-> TRUE, x |-> CX - 44, vx |-> 0, vy |-> 1500]

\* the slowest flake, drifting out of the screen on the left
Slow == [roll |-> TRUE, x |-> 0, vx |-> -300, vy |-> 500]

\* the program after a flake on the left edge of the upright logo in its first
\* tick, i ticks without a spawn and n ticks with a slow flake each
Crowded(i, n) ==
    Snowing(Idle(run(Boot, BUTTON_NONE, WAIT_MS + 1, OnLeftEdge), 2 * WAIT_MS + 1, i),
            (i + 2) * WAIT_MS + 1, n, Slow)

\* the program with all snowflake slots but SnowLead in use, and a pile pixel
\* that has slid down the left edge for 16 ticks and leaves it in the next one.
\* Half of the frames of the budget are left to explore
InitSnowFull ==
    LET n == MAX_SNOW - SnowLead
    IN Resume(Crowded(6, n), (n + 7) * WAIT_MS + 1, Crowded(6, n - 1),
              MaxFrames \div 2, 0)

Next == Exit \/ Reset \/ Wait \/ Play

Spec == Init /\ [][Next]_vars

\* the frames from MeltLead ticks before the first melt on
SpecMelt == InitMelt /\ [][Next]_vars

\* the frames from TurnLead steps of the logo before a_idx wraps
SpecTurn == InitTurn /\ [][Next]_vars

\* the frames of the active stage with the logo upright, or upside down
SpecSnap == InitSnap /\ [][Next]_vars

\* the frames from PileLead free pile slots on
SpecPileFull == InitPileFull /\ [][Next]_vars

\* the frames from SnowLead free snowflake slots on
SpecSnowFull == InitSnowFull /\ [][Next]_vars

\* a frame after the budget, without a key and without a spawn, while a flake
\* is falling: the view manager goes on calling run
Drain ==
    /\ running /\ stage = 1
    /\ frames >= MaxFrames /\ frames < MaxFrames + MaxDrain
    /\ \E i \in SnowIdx : sn_act[i]
    /\ Set(run(Cur, BUTTON_NONE, now + WAIT_MS, NoRoll))
    /\ now' = now + WAIT_MS
    /\ button' = BUTTON_NONE
    /\ old' = Snapshot(Cur, BUTTON_NONE)
    /\ frames' = frames + 1
    /\ events' = events

NextFall == Exit \/ Reset \/ Wait \/ Play \/ Drain

\* whether a frame of NextFall can be taken: the program runs and the budget
\* is not spent, or a flake is falling and the frames after it are not spent
CanRun ==
    /\ running
    /\ \/ frames < MaxFrames
       \/ stage = 1 /\ frames < MaxFrames + MaxDrain /\ \E i \in SnowIdx : sn_act[i]

\* a call of run, as the count of frames shows it: every frame of NextFall is
\* one, and one is enabled exactly when a frame of NextFall is
Called == CanRun /\ frames' = frames + 1

\* the frames from SnowLead free snowflake slots on, run being called again
\* and again for as long as the program runs
SpecFall == InitSnowFull /\ [][NextFall]_vars /\ WF_frames(Called)

----------------------------------------------------------------------------
(* The properties *)

\* C1: in every reachable state every ground column height h satisfies
\* 0 <= h <= screenHeight.  The code lowers a column by 4 at each landing
\* (line 214) and has no lower clamp.
C1_GroundInRange ==
    \A c \in ChunkIdx : 0 <= ground[c] /\ ground[c] <= SCREEN_H

\* C2: the column a flake at x is tested against is floor(x / 4), for negative
\* and fractional x too, and a flake whose floor(x / 4) is outside
\* [0, GROUND_CHUNKS) changes no ground column.  The code takes int(x) >> 2
\* (line 210), and int rounds towards zero.
C2_ColumnIsFloor ==
    \A i \in SnowIdx :
        hit[i].seen =>
            LET column == hit[i].x \div Px(FLAKE)
            IN /\ hit[i].chunk = column
               /\ (column < 0 \/ column >= GROUND_CHUNKS) => ~hit[i].gnd

\* the state a reset leaves behind, but for start_time
Fresh ==
    /\ \A i \in SnowIdx : ~sn_act[i]
    /\ \A p \in PileIdx : ~pl_act[p]
    /\ \A c \in ChunkIdx : ground[c] = SCREEN_H
    /\ tick = 0 /\ a_idx = 0 /\ ~rot /\ stage = 0

\* C3: the frame in which R is down leaves no snowflake and no pile pixel
\* active, every ground column at SCREEN_H, tick 0, a_idx 0, rot off and
\* stage 0, and runs no step of the simulation: no flake is spawned, none
\* goes through the collision pass, and no slot's position or velocity moves.
C3_ResetClears ==
    [][button' = BUTTON_R =>
          /\ Fresh'
          /\ start_time' = now'
          /\ born' = -1
          /\ \A i \in SnowIdx : ~hit'[i].seen
          /\ UNCHANGED <<sn_x, sn_y, sn_vx, sn_vy, sn_px, sn_py,
                         pl_rx, pl_ry, pl_sv, pl_edge>>]_vars

\* a reset of an active stage that had a flake on the logo
C3_ResetOfBusyStage ==
    /\ button = BUTTON_R
    /\ old.stage = 1 /\ old.tick > 0 /\ old.pile > 0

\* the values C4 compares
ResetView(S) == <<S.sn_act, S.pl_act, S.ground, S.a_idx, S.tick, S.stage, S.rot>>

\* C4: reset is idempotent.  From every reachable state, two resets in a row
\* leave the active flags of both pools, the ground, a_idx, tick, stage and rot
\* as one reset does; and a frame with R down that follows a frame with R
\* down changes none of them.
C4_ResetIdempotent ==
    /\ [](\A d1, d2 \in {0, 1, WAIT_MS + 1} :
             LET once == run(Cur, BUTTON_R, now + d1, NoRoll)
                 twice == run(once, BUTTON_R, now + d1 + d2, NoRoll)
             IN ResetView(twice) = ResetView(once))
    /\ [][(button = BUTTON_R /\ button' = BUTTON_R) =>
             UNCHANGED <<sn_act, pl_act, ground, a_idx, tick, stage, rot>>]_vars

\* two frames in a row with R down
C4_ResetTwice ==
    /\ button = BUTTON_R /\ old.button = BUTTON_R
    /\ old.stage = 0 /\ Fresh

\* C5: a frame that finds and leaves the stage dormant, the G key down or not,
\* changes neither tick, nor a ground column, nor a snowflake slot, nor a
\* pile slot, nor a_idx, nor rot.
C5_DormantFrame ==
    [][(stage = 0 /\ stage' = 0) =>
          UNCHANGED <<tick, ground, a_idx, rot,
                      sn_act, sn_x, sn_y, sn_vx, sn_vy, sn_px, sn_py,
                      pl_act, pl_rx, pl_ry, pl_sv, pl_edge>>]_vars

\* a frame of the dormant stage with the G key down
C5_DormantToggle ==
    /\ button = BUTTON_G /\ old.stage = 0 /\ stage = 0 /\ frames > 0

\* C6: the stage goes from dormant to active only in a frame whose clock is
\* more than 5000 ms after the last start, and from active to dormant only in
\* a frame with R down.
C6_StageGate ==
    [][/\ (stage = 0 /\ stage' = 1) => now' - start_time > 5000
       /\ (stage = 1 /\ stage' = 0) => button' = BUTTON_R]_vars

\* the stage has opened in a frame 5001 ms after a reset
C6_StageOpened ==
    /\ old.stage = 0 /\ stage = 1
    /\ now - start_time = 5001 /\ start_time > 0

\* C7: for each flake the collision pass of a tick has processed, landing on
\* the ground and hitting the logo exclude each other (a flake that lowered a
\* ground column made no pile pixel and did not hit the logo), and the pass
\* put the flake to sleep exactly if it landed, hit the logo, or had
\* y >= SCREEN_H; otherwise it left it active.
C7_OneFate ==
    \A i \in SnowIdx :
        hit[i].seen =>
            /\ ~(hit[i].gnd /\ (hit[i].body \/ hit[i].pile # -1))
            /\ hit[i].pile # -1 => hit[i].body
            /\ hit[i].off <=> (hit[i].gnd \/ hit[i].body \/ hit[i].y >= Px(SCREEN_H))

\* one pass in which a flake lands on the ground and another one on the logo
C7_BothFates ==
    \E i, j \in SnowIdx :
        /\ hit[i].gnd /\ hit[i].off /\ hit[i].pile = -1
        /\ hit[j].body /\ hit[j].off /\ hit[j].pile # -1 /\ pl_act[hit[j].pile]

\* C8: in a tick, each landing lowers the column of the landing flake by 4 and
\* no other one: after the melt, every column has gone down by 4 times the
\* number of flakes that landed on it.  A flake whose column is out of range,
\* or whose y + 4 is below the column's height, changes no column.
C8_LandingLowersOneColumn ==
    [][tick' = tick + 1 =>
          /\ \A c \in ChunkIdx :
                 ground'[c] = Melt(ground, tick')[c]
                     - 4 * Cardinality({i \in SnowIdx : hit'[i].gnd /\ hit'[i].chunk = c})
          /\ \A i \in SnowIdx :
                 hit'[i].seen =>
                     /\ ~hit'[i].inr => ~hit'[i].gnd
                     /\ hit'[i].inr /\ hit'[i].y + 4000 < 1000 * hit'[i].h => ~hit'[i].gnd]_vars

\* a pass in which one flake has landed while another one was out of range
C8_LandedAndNot ==
    \E i, j \in SnowIdx :
        /\ hit[i].gnd /\ ground[hit[i].chunk] = hit[i].h - 4
        /\ hit[j].seen /\ ~hit[j].inr /\ ~hit[j].gnd

\* C9: a flake that is active when a tick begins gets vy + GRAVITY, x + vx and
\* y + the new vy.  With its column in range, it stays active where then
\* y + 4 < height[column] and it has not hit the logo, and it lands (asleep,
\* column lowered) where y + 4 >= height[column], and only there: so it lands
\* at the first such tick and never earlier.
C9_FallAndLand ==
    [][tick' = tick + 1 =>
          \A i \in SnowIdx :
              sn_act[i] =>
                  LET f == hit'[i]
                  IN /\ f.seen
                     /\ f.vy = sn_vy[i] + 80
                     /\ f.x = sn_x[i] + sn_vx[i]
                     /\ f.y = sn_y[i] + f.vy
                     /\ ~f.off => /\ sn_act'[i]
                                  /\ sn_x'[i] = f.x /\ sn_y'[i] = f.y
                                  /\ sn_vx'[i] = sn_vx[i] /\ sn_vy'[i] = f.vy
                     /\ (f.inr /\ f.y + 4000 < 1000 * f.h /\ ~f.body) => ~f.off
                     /\ (f.inr /\ f.y + 4000 >= 1000 * f.h) =>
                            f.gnd /\ f.off /\ ground'[f.chunk] < f.h
                     /\ f.gnd => f.inr /\ f.y + 4000 >= 1000 * f.h]_vars

\* a flake that lands at its fourth tick, after three ticks of falling
C9_LandedAtFourth ==
    \E i \in SnowIdx :
        /\ hit[i].gnd /\ hit[i].off
        /\ hit[i].vy = 1500 + 4 * 80
        /\ hit[i].y = -5000 + 4 * 1500 + 10 * 80

\* C10: the melt changes the ground only in ticks whose tick counter is a
\* multiple of MELT_RATE, and there it raises every column below SCREEN_H by 1
\* and leaves a column at SCREEN_H alone.  In a tick every column ends at that
\* height, less 4 for each flake that landed on it; a frame that does not
\* tick and is no reset leaves the ground alone.  So, from the tick after a
\* melt, with no flake left to land, a column k below SCREEN_H is back at
\* SCREEN_H after k more melts, and stays there.
C10_MeltCadence ==
    /\ [](tick = 61 /\ Active(sn_act) = 0 /\ Active(pl_act) = 0 =>
             \A k \in 0 .. 5 :
                 LET S == Idle(Cur, now + WAIT_MS, 60 * k)
                 IN \A c \in ChunkIdx :
                        S.ground[c] = IF ground[c] + k < DrawSizeY
                                      THEN ground[c] + k ELSE DrawSizeY)
    /\ [][/\ tick' = tick + 1 =>
                 \A c \in ChunkIdx :
                     LET melted == IF tick' % 60 # 0 THEN ground[c]
                                   ELSE IF ground[c] < DrawSizeY THEN ground[c] + 1
                                   ELSE ground[c]
                         landings == {i \in SnowIdx : hit'[i].gnd /\ hit'[i].chunk = c}
                     IN ground'[c] = melted - 4 * Cardinality(landings)
          /\ (tick' = tick /\ button' # BUTTON_R) => ground' = ground]_vars

\* the tick after the first melt: the column a flake had lowered by 4 is back
\* up by 1, the others are still at SCREEN_H
C10_Melted ==
    /\ tick = 61 /\ old.tick = 60
    /\ \E c \in ChunkIdx :
           /\ ground[c] = DrawSizeY - 3
           /\ \A d \in ChunkIdx \ {c} : ground[d] = DrawSizeY

\* C11: a tick takes a_idx to (a_idx + 1) mod ROT_STEPS when rot is on (the G
\* key of the frame counted) and leaves it alone when rot is off, and a_idx is
\* always an index of the tables: 0 <= a_idx < ROT_STEPS.
C11_AngleAdvance ==
    /\ [](0 <= a_idx /\ a_idx < 126)
    /\ [][tick' = tick + 1 =>
             a_idx' = IF rot' THEN (a_idx + 1) % 126 ELSE a_idx]_vars

\* a tick with rot on has taken a_idx from the last index back to 0
C11_Wrapped ==
    /\ tick = old.tick + 1
    /\ old.rot /\ rot
    /\ old.a_idx = 125 /\ a_idx = 0

\* C12: a flake in the logo's box that gets a pile slot is put on the nearest
\* edge, the first of Top, Bottom, Left, Right among the nearest ones: on that
\* edge, its other coordinate as it was and so within the box, with pl_sv = 0;
\* and the flake is asleep.  While a pile slot is free, every flake in the box
\* gets one.
C12_SnapToNearestEdge ==
    \A i \in SnowIdx :
        LET f == hit[i]
            dt == IF f.ly >= -12000 THEN f.ly + 12000 ELSE -12000 - f.ly
            db == IF f.ly >= 12000 THEN f.ly - 12000 ELSE 12000 - f.ly
            dl == IF f.lx >= -45000 THEN f.lx + 45000 ELSE -45000 - f.lx
            dr == IF f.lx >= 45000 THEN f.lx - 45000 ELSE 45000 - f.lx
        IN /\ (f.body /\ old.pile < 200) => f.pile # -1
           /\ f.pile # -1 =>
                 /\ -45000 <= f.lx /\ f.lx <= 45000
                 /\ -12000 <= f.ly /\ f.ly <= 12000
                 /\ f.edge \in 0 .. 3
                 /\ f.edge = 0 => (dt <= db /\ dt <= dl /\ dt <= dr)
                 /\ f.edge = 1 => (db < dt /\ db <= dl /\ db <= dr)
                 /\ f.edge = 2 => (dl < dt /\ dl < db /\ dl <= dr)
                 /\ f.edge = 3 => (dr < dt /\ dr < db /\ dr < dl)
                 /\ f.edge = 0 => (f.rx = f.lx /\ f.ry = -12000)
                 /\ f.edge = 1 => (f.rx = f.lx /\ f.ry = 12000)
                 /\ f.edge = 2 => (f.rx = -45000 /\ f.ry = f.ly)
                 /\ f.edge = 3 => (f.rx = 45000 /\ f.ry = f.ly)
                 /\ f.sv = 0
                 /\ f.off

\* a flake as far from the top as from the left edge has been put on the top one
C12_TieGoesToTop ==
    \E i \in SnowIdx :
        /\ hit[i].pile # -1 /\ hit[i].off
        /\ hit[i].ly + 12000 = hit[i].lx + 45000
        /\ hit[i].ly + 12000 < 12000 - hit[i].ly
        /\ hit[i].edge = 0 /\ hit[i].ry = -12000 /\ hit[i].rx = hit[i].lx

\* C13: in a tick that begins with all MAX_PILE pile slots active, a flake in
\* the logo's box is put to sleep all the same, gets no pile slot and lowers
\* no ground column, and the pile arrays end the tick as the slide pass alone
\* leaves them: the collision pass has changed no pile slot.
C13_PileFullDrop ==
    [][(tick' = tick + 1 /\ \A p \in PileIdx : pl_act[p]) =>
          /\ \A i \in SnowIdx :
                 hit'[i].body =>
                     hit'[i].off /\ hit'[i].pile = -1 /\ ~hit'[i].gnd
          /\ LET S == SlidePass(Cur, 0, MAX_PILE, SIN_LUT[a_idx + 1], COS_LUT[a_idx + 1])
             IN /\ pl_act' = S.pl_act /\ pl_edge' = S.pl_edge
                /\ pl_rx' = S.pl_rx /\ pl_ry' = S.pl_ry /\ pl_sv' = S.pl_sv]_vars

\* a flake has fallen on the left edge of the logo with no pile slot free
C13_Dropped ==
    /\ old.pile = 200
    /\ \E i \in SnowIdx :
           /\ hit[i].body /\ hit[i].off /\ hit[i].pile = -1
           /\ hit[i].lx < -40000
    /\ \A p \in PileIdx : pl_act[p] /\ pl_edge[p] = 0

\* C16: at the end of every frame the pile pool has its MAX_PILE slots, so at
\* most MAX_PILE active ones.
C16_PileBound ==
    /\ DOMAIN pl_act = 0 .. 199
    /\ Cardinality({p \in DOMAIN pl_act : pl_act[p]}) <= 200

\* all slots were active, one more flake has fallen on the middle of the logo,
\* and there are MAX_PILE active slots still
C16_PileFilled ==
    /\ Cardinality({p \in DOMAIN pl_act : pl_act[p]}) = 200
    /\ old.pile = 200 /\ old.roll.roll
    /\ \E i \in SnowIdx : hit[i].body /\ hit[i].lx = 0

C15_SnowBound ==
    /\ DOMAIN sn_act = 0 .. 9
    /\ Cardinality({i \in DOMAIN sn_act : sn_act[i]}) <= 10

\* a tick in which a spawn took the last free slot and the pile pixel left its
\* edge: MAX_SNOW flakes are active
C15_SnowFilled ==
    /\ tick = old.tick + 1
    /\ old.snow = 9 /\ born # -1
    /\ old.pile = 1 /\ \A p \in PileIdx : ~pl_act[p]
    /\ Cardinality({i \in DOMAIN sn_act : sn_act[i]}) = 10


\* C17: the spawn of a tick wakes at most one snowflake slot, the lowest
\* inactive one, and whenever the roll succeeds and a slot is free; the new
\* flake enters the collision pass from y = -5 and an x in [0, SCREEN_W), and
\* every flake that was already active enters it from its own position and
\* velocity.
C17_SpawnOneLowest ==
    [][tick' = tick + 1 =>
          LET woken == {i \in SnowIdx : ~sn_act[i] /\ hit'[i].seen}
          IN /\ Cardinality(woken) <= 1
             /\ woken = IF old'.roll.roll /\ (\E i \in SnowIdx : ~sn_act[i])
                        THEN {born'} ELSE {}
             /\ \A i \in woken :
                    /\ \A j \in 0 .. (i - 1) : sn_act[j]
                    /\ old'.roll.x \in 0 .. (SCREEN_W - 1)
                    /\ hit'[i].x = 1000 * old'.roll.x + old'.roll.vx
                    /\ hit'[i].vy = old'.roll.vy + 80
                    /\ hit'[i].y = -5000 + old'.roll.vy + 80
             /\ \A i \in SnowIdx :
                    sn_act[i] =>
                        /\ hit'[i].seen
                        /\ hit'[i].x = sn_x[i] + sn_vx[i]
                        /\ hit'[i].vy = sn_vy[i] + 80
                        /\ hit'[i].y = sn_y[i] + sn_vy[i] + 80]_vars

\* a spawn has reused slot 0, freed by a flake that left the screen, while the
\* later slots are still falling
C17_ReusedLowest ==
    /\ tick = old.tick + 1
    /\ born = 0 /\ old.snow = 8
    /\ \A i \in 1 .. 8 : hit[i].seen
    /\ ~hit[9].seen

\* C18: in a tick whose pull along the horizontal edges is 0 and whose top
\* edge does not face away from gravity, a pile pixel that began the tick on
\* the top edge ends it with FRICTION times its slide velocity, which is no
\* larger in magnitude and of no opposite sign.
C18_TopEdgeDecay ==
    [][tick' = tick + 1 =>
          LET gx == RoundDiv(SIN_LUT[a_idx + 1] * GRAVITY * 2, 1000)
              gy == RoundDiv(COS_LUT[a_idx + 1] * GRAVITY * 2, 1000)
          IN \A p \in PileIdx :
                 (pl_act[p] /\ pl_edge[p] = 0 /\ gx = 0 /\ gy >= 0) =>
                     /\ pl_sv'[p] = RoundDiv(pl_sv[p] * FRICTION, 1000)
                     /\ (pl_sv[p] >= 0 => pl_sv'[p] \in 0 .. pl_sv[p])
                     /\ (pl_sv[p] <= 0 => pl_sv'[p] \in pl_sv[p] .. 0)]_vars

\* a pixel that was sliding on the top edge before a tick that read the upright
\* angle is still on it after the tick, still sliding
C18_StillSliding ==
    /\ tick = old.tick + 1
    /\ old.a_idx = 0
    /\ \E p \in PileIdx :
           /\ pl_act[p] /\ pl_edge[p] = 0 /\ pl_sv[p] # 0
           /\ \A i \in SnowIdx : hit[i].pile # p

\* C19: in a tick with the rotation on, the collision pass turns a flake into
\* the logo's frame with the sine and cosine of the angle index as the tick's
\* advance has left it.  The code reads both at lines 167-168, before the
\* advance of lines 191-192, and the passes use what it read.
C19_AngleAfterAdvance ==
    [][(tick' = tick + 1 /\ rot') =>
          \A i \in SnowIdx :
              (hit'[i].seen /\ ~hit'[i].gnd) =>
                  LET dx == hit'[i].x - Px(CX)
                      dy == hit'[i].y - Px(CY)
                      s == SIN_LUT[a_idx' + 1]
                      c == COS_LUT[a_idx' + 1]
                  IN /\ hit'[i].lx = RoundDiv(dx * c + dy * s, 1000)
                     /\ hit'[i].ly = RoundDiv(dy * c - dx * s, 1000)]_vars

\* C20: after every frame each active pile pixel lies on its own edge of the
\* logo's box (0 top, 1 bottom, 2 left, 3 right) with its other coordinate
\* within the box, and a pixel that stays active keeps its edge.
C20_PileOnItsEdge ==
    /\ [](\A p \in PileIdx :
             pl_act[p] =>
                 /\ pl_edge[p] \in 0 .. 3
                 /\ pl_edge[p] = 0 => (pl_ry[p] = -12000 /\ pl_rx[p] \in -45000 .. 45000)
                 /\ pl_edge[p] = 1 => (pl_ry[p] = 12000 /\ pl_rx[p] \in -45000 .. 45000)
                 /\ pl_edge[p] = 2 => (pl_rx[p] = -45000 /\ pl_ry[p] \in -12000 .. 12000)
                 /\ pl_edge[p] = 3 => (pl_rx[p] = 45000 /\ pl_ry[p] \in -12000 .. 12000))
    /\ [][\A p \in PileIdx :
              (pl_act[p] /\ pl_act'[p]) => pl_edge'[p] = pl_edge[p]]_vars

\* after the pixel that slid down the left edge has left it at the bottom, a
\* later pixel has made a step down the same edge and is still on it
C20_SlidOnLeftEdge ==
    /\ tick = old.tick + 1
    /\ old.pile = 1
    /\ \E p \in PileIdx :
           /\ pl_act[p] /\ pl_edge[p] = 2 /\ pl_rx[p] = -45000
           /\ pl_sv[p] > 0 /\ pl_ry[p] < 0
           /\ \A i \in SnowIdx : hit[i].pile # p

\* C21: in a tick the number of active particles, flakes and pile pixels
\* together, grows by at most 1.  The flakes awake after the collision pass are
\* flakes of the tick's beginning or the spawned one; every pile pixel made is
\* made by one flake of its own that hit the logo and was put to sleep; the
\* slide pass puts no flake to sleep, and wakes no more flakes than pile
\* pixels left their edges.
C21_GrowsByOne ==
    [][tick' = tick + 1 =>
          LET kept == {i \in SnowIdx : hit'[i].seen /\ ~hit'[i].off}
              made == {i \in SnowIdx : hit'[i].pile # -1}
              released == {i \in SnowIdx : sn_act'[i]} \ kept
              fallen == Active(pl_act) + Cardinality(made) - Active(pl_act')
          IN /\ Active(sn_act') + Active(pl_act') <= Active(sn_act) + Active(pl_act) + 1
             /\ kept \subseteq {i \in SnowIdx : sn_act[i] \/ i = born'}
             /\ \A i \in made : hit'[i].body /\ hit'[i].off /\ ~pl_act[hit'[i].pile]
             /\ \A i, j \in made : hit'[i].pile = hit'[j].pile => i = j
             /\ \A p \in PileIdx :
                    (~pl_act[p] /\ pl_act'[p]) => \E i \in made : hit'[i].pile = p
             /\ \A i \in kept : sn_act'[i]
             /\ Cardinality(released) <= fallen]_vars

\* a tick that spawned a flake, made a pile pixel of it, and woke a flake for
\* the pixel that left the left edge: one particle more than before
C21_SpawnedMadeReleased ==
    /\ tick = old.tick + 1
    /\ born # -1 /\ hit[born].pile # -1
    /\ old.pile = 1 /\ Active(pl_act) = 1 /\ ~pl_act[0]
    /\ Active(sn_act) = old.snow + 1

\* C22: while run keeps being called, every flake that is awake is put to
\* sleep in some later collision pass, by the ground, by the logo or by the
\* bottom of the screen, unless the program is left or reset first.
C22_FlakesSettle ==
    \A i \in SnowIdx :
        sn_act[i] ~> (~sn_act[i] \/ hit[i].off \/ ~running)

\* after the budget, a flake left of the screen, over no ground column, has
\* passed the bottom of the screen and been put to sleep
C22_PastTheBottom ==
    /\ frames > MaxFrames
    /\ \E i \in SnowIdx :
           /\ hit[i].seen /\ hit[i].off /\ ~sn_act[i]
           /\ ~hit[i].inr /\ ~hit[i].gnd /\ ~hit[i].body
           /\ hit[i].y >= 1000 * SCREEN_H

============================================================================
